---- MODULE Spec2Model ----
(***************************************************************************)
(* A model of the SIP user agent client of src/SipClient.js running over   *)
(* the UDP transport of src/SipTransport.js, driven by main.js             *)
(* (src/unnamed/part_000).                                                 *)
(*                                                                         *)
(* One action is one turn of the Node.js event loop: the bind callback, a  *)
(* timer expiry, an inbound datagram, a send completion, a socket error or *)
(* the operator interrupt.  Each handler runs to completion.  No handler   *)
(* catches exceptions, so an exception thrown inside one ends the process. *)
(***************************************************************************)
EXTENDS Integers, Sequences, FiniteSets, TLC

\* ------------------------------------------------------------------ bounds
\* How many distinct values the random draws of one kind take in a run.
NumRand == 2
\* How many requests the run may put on the wire.
MaxSends == 4
\* How many times a caller may invoke _sendInvite.
MaxInvites == 2

\* ------------------------------------------------------- program constants
\* null, the value of the invite fields before any INVITE (this.inviteCallId = null).
Null == 0
\* this.regCseq = 1 and this.inviteCseq = 1 in the constructor.
InitialCseq == 1
\* cseqNumber: 1 of _sendMessage.
MessageCseq == 1
\* cseqNumber: 2 of _sendMessageWithAuth.
MessageAuthCseq == 2

Rand == 1..NumRand

\* One draw of Math.random() (and Date.now()) whose earlier outcomes are
\* `used`.  Only equality of drawn values is ever observed, so the outcomes
\* are: one of the values drawn before, or a value not drawn before, named by
\* the least number still free.
Draw(used) == {n \in Rand : n \in used \/ \A m \in 1..(n - 1) : m \in used}

\* Status codes a response may carry: a provisional one, the edges of the 2xx
\* range, a redirect, the two challenges and a client error.
Statuses == {100, 200, 299, 300, 401, 407, 484}

\* The method token of the response's CSeq header, lower-cased as in
\* _handleResponse; "options" stands for every value that includes none of the
\* three (another method, or no CSeq line at all).
CseqMethods == {"register", "message", "invite", "options"}

\* What challenge header a response carries: none, a well-formed
\* WWW-Authenticate / Proxy-Authenticate (quoted realm and nonce), one of
\* them without a quoted realm or nonce, or both headers well-formed.
Challenges == {"none", "www", "proxy", "www-malformed", "proxy-malformed", "both"}

VARIABLES
  mode,            \* this.mode: "rcv" or "send"
  phase,           \* "constructed", "binding", "running", "exited", "crashed"
  sock,            \* the dgram socket of the transport: "open" or "closed"
  isRegistered,    \* this.isRegistered
  regCallId,       \* this.regCallId
  regBranch,       \* this.regBranch
  regFromTag,      \* this.regFromTag
  regCseq,         \* this.regCseq
  inviteCallId,    \* this.inviteCallId
  inviteBranch,    \* this.inviteBranch
  inviteFromTag,   \* this.inviteFromTag
  inviteCseq,      \* this.inviteCseq
  keepAliveTimer,  \* the setInterval of start() is armed
  sendTimer,       \* the setTimeout of start() is pending
  ackPending,      \* completion callbacks of ACK sends not yet run
  wire,            \* the requests handed to the network, in order
  closeCalls,      \* how many times SipClient.close() was invoked
  thrown,          \* the call that threw ERR_SOCKET_DGRAM_NOT_RUNNING, or "none"
  invites,         \* how many times _sendInvite was invoked
  ev,              \* the event the last turn handled
  call             \* a function called on its own: its name, arguments and result

clientVars == <<mode, phase, sock, isRegistered, regCallId, regBranch, regFromTag,
                regCseq, inviteCallId, inviteBranch, inviteFromTag, inviteCseq,
                keepAliveTimer, sendTimer, ackPending, wire, closeCalls, thrown,
                invites, ev>>

vars == <<clientVars, call>>

regVars == <<regCallId, regBranch, regFromTag, regCseq>>
inviteVars == <<inviteCallId, inviteBranch, inviteFromTag, inviteCseq>>
timerVars == <<keepAliveTimer, sendTimer>>

\* ----------------------------------------------------------------- values
\* _makeCallId(prefix): the prefix and the drawn part (time and random number).
CallId(prefix, n) == [p |-> prefix, n |-> n]
NullCallId == [p |-> "null", n |-> Null]

\* _makeBranch(): "z9hG4bK-" and the drawn number; the ACK appends "-ack".
Branch(n) == [n |-> n, ack |-> FALSE]
AckBranch(b) == [n |-> b.n, ack |-> TRUE]
NullBranch == [n |-> Null, ack |-> FALSE]

Event(kind) ==
  [kind |-> kind, status |-> 0, cm |-> "", num |-> 0, chal |-> "none",
   method |-> "", rinfo |-> ""]
ResponseEvent(status, cm, num, chal) ==
  [Event("response") EXCEPT !.status = status, !.cm = cm, !.num = num, !.chal = chal]
\* An inbound request: the method parseSipFirstLine found and the sender's
\* address and port.
RequestEvent(method, rinfo) ==
  [Event("request") EXCEPT !.method = method, !.rinfo = rinfo]

\* A string put together from parts is kept as the tuple of its parts: the
\* `a:b:c` of the digest and the `sip:user@domain` of the URIs.

\* md5(str): the hex digest, a value that stands for its input and nothing
\* else (two inputs that differ have digests that differ).
md5(str) == [md5 |-> str]

\* The request-URI SipRequestBuilder.build puts on the request line:
\* sip:<domain> for REGISTER, sip:<toUser>@<domain> for the other methods.
RequestUri(method) ==
  IF method = "REGISTER" THEN <<"sip:", "SIP_SERVER_HOST">>
                         ELSE <<"sip:", "toUser", "@", "SIP_SERVER_HOST">>

\* No authHeader option given to the builder.
NoAuthHeader ==
  [type |-> "none", username |-> "", realm |-> "", nonce |-> "", uri |-> <<>>,
   response |-> md5(<<>>)]

\* One request as SipRequestBuilder renders it: the fields the claims read.
\* fn names the method of SipClient that sent it; auth is the name of the
\* credential header and digest its attributes; to is the destination given
\* to sendPacket.
Request(method, cseq, branch, callId, fromTag, authHeader, fn) ==
  [method |-> method, uri |-> RequestUri(method), cseq |-> cseq,
   branch |-> branch, callId |-> callId, fromTag |-> fromTag,
   auth |-> authHeader.type, digest |-> authHeader, fn |-> fn,
   to |-> "SIP_SERVER_HOST"]

\* The 200 OK _build200Ok renders for an inbound request, and the destination
\* given to sendPacket.
Reply(method, to) ==
  [method |-> "SIP/2.0", status |-> 200, request |-> method, to |-> to,
   fn |-> "_handleRequest"]

\* The requests of one transaction family on the wire: every REGISTER, every
\* MESSAGE, or every INVITE and ACK.
Family(method) == IF method = "ACK" THEN "INVITE" ELSE method
FamilyIndices(fam) == {i \in DOMAIN wire : Family(wire[i].method) = fam}

\* The drawn numbers a new draw can be compared with: a Via branch, a From-tag
\* and a Call-ID are only ever compared with those of the same family, so
\* these are the numbers the family has on the wire.
UsedBranches(fam) == {wire[i].branch.n : i \in FamilyIndices(fam)} \ {Null}
UsedTags(fam) == {wire[i].fromTag : i \in FamilyIndices(fam)} \ {Null}
UsedCallIds(fam, prefix) ==
  {wire[i].callId.n : i \in {j \in FamilyIndices(fam) : wire[j].callId.p = prefix}}

\* _makeBranch(), _makeTag(), _makeCallId(prefix): the numbers one call may
\* draw for a request of family fam.
_makeBranch(fam) == Draw(UsedBranches(fam))
_makeTag(fam) == Draw(UsedTags(fam))
_makeCallId(fam, prefix) == Draw(UsedCallIds(fam, prefix))

\* ------------------------------------------------- the 200 OK of a request
\* A line of a message is kept as the tuple of its tokens, the header name
\* first; a message is the sequence of its lines (joined by CRLF on the wire).
\* The empty string is the empty tuple.
EmptyLine == <<>>

\* l.toLowerCase() of a header name.
Lower(token) ==
  CASE token \in {"Via:", "VIA:"} -> "via:"
    [] token \in {"From:", "FROM:"} -> "from:"
    [] token \in {"To:", "TO:"} -> "to:"
    [] token \in {"Call-ID:", "CALL-ID:"} -> "call-id:"
    [] token \in {"CSeq:", "CSEQ:"} -> "cseq:"
    [] token \in {"Max-Forwards:", "MAX-FORWARDS:"} -> "max-forwards:"
    [] token \in {"Content-Length:", "CONTENT-LENGTH:"} -> "content-length:"
    [] OTHER -> token

\* startsWith on the line as it is written, without toLowerCase().
StartsWith_asWritten(line, name) == Len(line) > 0 /\ line[1] = name

\* l.toLowerCase().startsWith(name)
StartsWith(line, name) == Len(line) > 0 /\ Lower(line[1]) = name

\* lines.find(l => l.toLowerCase().startsWith(name)) || ''
FindLine(lines, name) ==
  IF \E i \in DOMAIN lines : StartsWith(lines[i], name)
  THEN lines[CHOOSE i \in DOMAIN lines :
               /\ StartsWith(lines[i], name)
               /\ \A j \in 1..(i - 1) : ~StartsWith(lines[j], name)]
  ELSE EmptyLine

\* lines.filter(l => l.toLowerCase().startsWith(name))
RECURSIVE FilterLines(_, _)
FilterLines(lines, name) ==
  IF lines = <<>> THEN <<>>
  ELSE (IF StartsWith(Head(lines), name) THEN <<Head(lines)>> ELSE <<>>)
         \o FilterLines(Tail(lines), name)

\* /tag\s*=\S+/i.test(toLine)
HasTag(line) == \E i \in DOMAIN line : line[i] = ";tag="

\* toLine.replace(/>$/, `;tag=${n}>`): a closing bracket at the very end of
\* the line gets the tag put in front of it.
WithTagBeforeBracket(line, n) ==
  IF Len(line) > 0 /\ line[Len(line)] = ">"
  THEN SubSeq(line, 1, Len(line) - 1) \o <<";tag=", n, ">">>
  ELSE line

\* _build200Ok(lines) of src/SipClient.js; n is the number Math.random gives.
_build200Ok(lines, n) ==
  LET viaLine == FindLine(lines, "via:")
      callIdLine == FindLine(lines, "call-id:")
      fromLine == FindLine(lines, "from:")
      toLine0 == FindLine(lines, "to:")
      cseqLine == FindLine(lines, "cseq:")
      toLine == IF ~HasTag(toLine0) THEN WithTagBeforeBracket(toLine0, n)
                                    ELSE toLine0
  IN  << <<"SIP/2.0 200 OK">>, viaLine, toLine, fromLine, callIdLine, cseqLine,
         <<"Content-Length:", "0">>, EmptyLine, EmptyLine >>

\* _build200OkResponse(requestLines) of the client with the protocol option.
_build200OkResponse(requestLines) ==
  LET viaLine == FilterLines(requestLines, "via:")
      fromLine == FindLine(requestLines, "from:")
      toLine == FindLine(requestLines, "to:")
      callIdLine == FindLine(requestLines, "call-id:")
      cseqLine == FindLine(requestLines, "cseq:")
  IN  << <<"SIP/2.0 200 OK">> >> \o viaLine
        \o << fromLine, toLine, callIdLine, cseqLine,
              <<"Server:", "Node-SIP-Demo">>, <<"Content-Length:", "0">>,
              EmptyLine, EmptyLine >>

\* --------------------------------------------------------------- transport
\* dgram: send() and close() on a socket whose handle is gone throw
\* ERR_SOCKET_DGRAM_NOT_RUNNING; SipTransport calls both unguarded.
SocketRunning(s) == s = "open"

\* SipTransport.sendPacket(msg, host, port[, cb]) as the last statement of a
\* handler that returns into phase `after`: the datagram goes out, or
\* socket.send throws and the process ends.
sendPacket(pkt, after) ==
  IF SocketRunning(sock)
  THEN /\ wire' = Append(wire, pkt)
       /\ thrown' = thrown
       /\ phase' = after
  ELSE /\ wire' = wire
       /\ thrown' = "send"
       /\ phase' = "crashed"

\* SipClient.close() followed by the handler returning into phase `after`:
\* clearInterval, then SipTransport.close() -> socket.close().
close(after) ==
  /\ closeCalls' = closeCalls + 1
  /\ keepAliveTimer' = FALSE
  /\ IF SocketRunning(sock)
     THEN /\ sock' = "closed"
          /\ thrown' = thrown
          /\ phase' = after
     ELSE /\ sock' = sock
          /\ thrown' = "close"
          /\ phase' = "crashed"

\* ------------------------------------------------------------ construction
\* No function is being called on its own.
NoCall == [fn |-> "none"]

\* new SipClient({...}) of main.js.
Constructed ==
  /\ mode \in {"rcv", "send"}
  /\ phase = "constructed"
  /\ sock = "open"
  /\ isRegistered = FALSE
  /\ \E n \in Draw({}) : regCallId = CallId("reg", n)
  /\ \E n \in Draw({}) : regBranch = Branch(n)
  /\ regFromTag \in Draw({})
  /\ regCseq = InitialCseq
  /\ inviteCallId = NullCallId
  /\ inviteBranch = NullBranch
  /\ inviteFromTag = Null
  /\ inviteCseq = InitialCseq
  /\ keepAliveTimer = FALSE
  /\ sendTimer = FALSE
  /\ ackPending = 0
  /\ wire = <<>>
  /\ closeCalls = 0
  /\ thrown = "none"
  /\ invites = 0
  /\ ev = Event("constructed")

Init == Constructed /\ call = NoCall

\* -------------------------------------------------------------- the sends
\* _sendRegister that keeps the credentials of an accepted registration and
\* sends them again.
_sendRegister_retaining(after) ==
  \E b \in _makeBranch("REGISTER") :
    /\ regBranch' = Branch(b)
    /\ regCseq' = regCseq + 1
    /\ UNCHANGED <<regCallId, regFromTag>>
    /\ sendPacket(Request("REGISTER", regCseq + 1, Branch(b), regCallId, regFromTag,
                          IF isRegistered
                          THEN [NoAuthHeader EXCEPT !.type = "Authorization",
                                                    !.realm = "www-realm",
                                                    !.nonce = "www-nonce"]
                          ELSE NoAuthHeader,
                          "_sendRegister"), after)

\* _sendRegister(): a fresh branch, regCseq++, REGISTER without credentials.
_sendRegister(after) ==
  \E b \in _makeBranch("REGISTER") :
    /\ regBranch' = Branch(b)
    /\ regCseq' = regCseq + 1
    /\ UNCHANGED <<regCallId, regFromTag>>
    /\ sendPacket(Request("REGISTER", regCseq + 1, Branch(b), regCallId,
                          regFromTag, NoAuthHeader, "_sendRegister"), after)

\* _sendMessage(): a new Call-ID, branch and From-tag, CSeq 1.
_sendMessage ==
  \E c \in _makeCallId("MESSAGE", "msg"), b \in _makeBranch("MESSAGE"),
     t \in _makeTag("MESSAGE") :
    sendPacket(Request("MESSAGE", MessageCseq, Branch(b), CallId("msg", c), t,
                       NoAuthHeader, "_sendMessage"), phase)

\* _sendInvite(): a new Call-ID, branch and From-tag stored in the invite
\* fields, CSeq this.inviteCseq as it stands.
_sendInvite ==
  \E c \in _makeCallId("INVITE", "invite"), b \in _makeBranch("INVITE"),
     t \in _makeTag("INVITE") :
    /\ inviteCallId' = CallId("invite", c)
    /\ inviteBranch' = Branch(b)
    /\ inviteFromTag' = t
    /\ inviteCseq' = inviteCseq
    /\ sendPacket(Request("INVITE", inviteCseq, Branch(b), CallId("invite", c), t,
                          NoAuthHeader, "_sendInvite"), phase)

\* AckCseq that keeps the number of the first INVITE instead of reading
\* this.inviteCseq.
AckCseq_initial == InitialCseq

\* The CSeq number _sendAckForInvite puts on the ACK: "same as INVITE cseq".
AckCseq == inviteCseq

\* _sendAckForInvite that acknowledges only an INVITE that was sent.
_sendAckForInvite_pending ==
  IF inviteCallId = NullCallId
  THEN UNCHANGED <<wire, thrown, phase, ackPending>>
  ELSE /\ sendPacket(Request("ACK", AckCseq, AckBranch(inviteBranch), inviteCallId,
                             inviteFromTag, NoAuthHeader, "_sendAckForInvite"), phase)
       /\ ackPending' = ackPending + 1

\* _sendAckForInvite(): the stored invite fields, branch "<inviteBranch>-ack",
\* and a completion callback that closes the client in send mode.
_sendAckForInvite ==
  /\ sendPacket(Request("ACK", AckCseq, AckBranch(inviteBranch), inviteCallId,
                        inviteFromTag, NoAuthHeader, "_sendAckForInvite"), phase)
  /\ ackPending' = IF SocketRunning(sock) THEN ackPending + 1 ELSE ackPending

\* ------------------------------------------------------- authentication
\* The header _buildDigestAuthHeader names.
AuthType(isProxy) == IF isProxy THEN "Proxy-Authorization" ELSE "Authorization"

\* _buildDigestAuthHeader({method, uri, username, password, realm, nonce, isProxy}).
_buildDigestAuthHeader(method, uri, realm, nonce, isProxy) ==
  LET a1 == md5(<<"fromUser", ":", realm, ":", "password">>)
      a2 == md5(<<method, ":", uri>>)
  IN  [type |-> AuthType(isProxy), username |-> "fromUser", realm |-> realm,
       nonce |-> nonce, uri |-> uri,
       response |-> md5(<<a1, ":", nonce, ":", a2>>)]

\* MessageAuthUri that names the domain alone, as the REGISTER's does.
MessageAuthUri_domain == <<"sip:", "SIP_SERVER_HOST">>

\* The uri option the three authenticated senders hand to
\* _buildDigestAuthHeader.
RegisterAuthUri == <<"sip:", "SIP_SERVER_HOST">>
MessageAuthUri == <<"sip:", "toUser", "@", "SIP_SERVER_HOST">>
InviteAuthUri == <<"sip:", "toUser", "@", "SIP_SERVER_HOST">>

\* RegAuthCallId that mints a Call-ID for the retry, as the MESSAGE retry does.
RegAuthCallId_minted == CallId("reg2", 1)

\* callId: this.regCallId of _sendRegisterWithAuth.
RegAuthCallId == regCallId

\* _sendRegisterWithAuth(realm, nonce, isProxy); cseq is this.regCseq as the
\* caller left it.
_sendRegisterWithAuth(cseq, realm, nonce, isProxy) ==
  \E b \in _makeBranch("REGISTER") :
    /\ regBranch' = Branch(b)
    /\ regCseq' = cseq
    /\ UNCHANGED <<regCallId, regFromTag>>
    /\ sendPacket(Request("REGISTER", cseq, Branch(b), RegAuthCallId, regFromTag,
                          _buildDigestAuthHeader("REGISTER", RegisterAuthUri,
                                                 realm, nonce, isProxy),
                          "_sendRegisterWithAuth"), phase)

\* _sendMessageWithAuth(realm, nonce, isProxy): again a new Call-ID, branch and
\* From-tag, and the constant CSeq 2.
_sendMessageWithAuth(realm, nonce, isProxy) ==
  \E c \in _makeCallId("MESSAGE", "msg2"), b \in _makeBranch("MESSAGE"),
     t \in _makeTag("MESSAGE") :
    sendPacket(Request("MESSAGE", MessageAuthCseq, Branch(b), CallId("msg2", c), t,
                       _buildDigestAuthHeader("MESSAGE", MessageAuthUri,
                                              realm, nonce, isProxy),
                       "_sendMessageWithAuth"), phase)

\* _sendInviteWithAuth(realm, nonce, isProxy); cseq is this.inviteCseq as the
\* caller left it.
_sendInviteWithAuth(cseq, realm, nonce, isProxy) ==
  \E b \in _makeBranch("INVITE") :
    /\ inviteBranch' = Branch(b)
    /\ inviteCseq' = cseq
    /\ UNCHANGED <<inviteCallId, inviteFromTag>>
    /\ sendPacket(Request("INVITE", cseq, Branch(b), inviteCallId, inviteFromTag,
                          _buildDigestAuthHeader("INVITE", InviteAuthUri,
                                                 realm, nonce, isProxy),
                          "_sendInviteWithAuth"), phase)

\* HasChallengeHeader that takes a challenge header of either kind.
HasChallengeHeader_either(isProxy, chal) == chal # "none"

\* lines.find(...) of _handleAuthChallenge: the header the status code selects.
HasChallengeHeader(isProxy, chal) ==
  IF isProxy THEN chal \in {"proxy", "proxy-malformed", "both"}
             ELSE chal \in {"www", "www-malformed", "both"}

\* ChallengeParses that takes any header for well-formed.
ChallengeParses_any(chal) == TRUE

\* realmMatch && nonceMatch: both quoted attributes are found in the header
\* the status code selected.
ChallengeParses(chal) == chal \in {"www", "proxy", "both"}

\* realmMatch[1] and nonceMatch[1]: the quoted values of the selected header.
\* Each of the two headers of a response carries a realm and nonce of its own.
ChallengeRealm(isProxy) == IF isProxy THEN "proxy-realm" ELSE "www-realm"
ChallengeNonce(isProxy) == IF isProxy THEN "proxy-nonce" ELSE "www-nonce"

\* CseqIncludes that finds every method name in every CSeq value.
CseqIncludes_any(cm, token) == TRUE

\* cseqVal.includes(token) on the lower-cased CSeq value.
CseqIncludes(cm, token) == cm = token

\* this.regCseq++ / this.inviteCseq++ before the authenticated resend.
NextCseq(c) == c + 1

\* _handleAuthChallenge(isProxy, lines, cseqVal).
_handleAuthChallenge(isProxy, chal, cm) ==
  IF ~HasChallengeHeader(isProxy, chal) \/ ~ChallengeParses(chal)
  THEN UNCHANGED <<regVars, inviteVars, wire, thrown, phase>>
  ELSE IF CseqIncludes(cm, "register")
  THEN /\ _sendRegisterWithAuth(NextCseq(regCseq), ChallengeRealm(isProxy),
                                ChallengeNonce(isProxy), isProxy)
       /\ UNCHANGED inviteVars
  ELSE IF CseqIncludes(cm, "message")
  THEN /\ _sendMessageWithAuth(ChallengeRealm(isProxy), ChallengeNonce(isProxy),
                               isProxy)
       /\ UNCHANGED <<regVars, inviteVars>>
  ELSE IF CseqIncludes(cm, "invite")
  THEN /\ _sendInviteWithAuth(NextCseq(inviteCseq), ChallengeRealm(isProxy),
                              ChallengeNonce(isProxy), isProxy)
       /\ UNCHANGED regVars
  ELSE UNCHANGED <<regVars, inviteVars, wire, thrown, phase>>

\* ------------------------------------------------------ response dispatch
\* IsAuthChallenge that takes every 4xx for a challenge.
IsAuthChallenge_any4xx(status) == status >= 400 /\ status < 500

\* statusCode === 401 || statusCode === 407
IsAuthChallenge(status) == status = 401 \/ status = 407

\* Is2xx that accepts 200 alone, and Is2xx without the upper edge.
Is2xx_only200(status) == status = 200
Is2xx_noUpperEdge(status) == status >= 200

\* statusCode >= 200 && statusCode < 300
Is2xx(status) == status >= 200 /\ status < 300

\* ClosesAfterResponse without the mode test.
ClosesAfterResponse_anyMode(m) == TRUE

\* ClosesAfterResponse with the mode test inverted.
ClosesAfterResponse_rcv(m) == m = "rcv"

\* this.mode === 'send' guarding close() in _handleResponse and in the ACK
\* completion callback.
ClosesAfterResponse(m) == m = "send"

\* _handleResponse({statusCode, reason, messageLines}).
_handleResponse(status, cm, chal) ==
  IF IsAuthChallenge(status)
  THEN /\ _handleAuthChallenge(status = 407, chal, cm)
       /\ UNCHANGED <<isRegistered, keepAliveTimer, closeCalls, sock, ackPending>>
  ELSE IF Is2xx(status) /\ CseqIncludes(cm, "register")
  THEN /\ isRegistered' = TRUE
       /\ UNCHANGED <<regVars, inviteVars, keepAliveTimer, closeCalls, sock,
                      ackPending, wire, thrown, phase>>
  ELSE IF Is2xx(status) /\ CseqIncludes(cm, "invite") /\ ~CseqIncludes(cm, "message")
  THEN /\ _sendAckForInvite
       /\ UNCHANGED <<isRegistered, regVars, inviteVars, keepAliveTimer,
                      closeCalls, sock>>
  ELSE IF Is2xx(status) /\ ~CseqIncludes(cm, "message")
  THEN UNCHANGED <<isRegistered, regVars, inviteVars, keepAliveTimer, closeCalls,
                   sock, ackPending, wire, thrown, phase>>
  ELSE \* 2xx for a MESSAGE, or any status outside 2xx
       IF ClosesAfterResponse(mode)
       THEN /\ close(phase)
            /\ UNCHANGED <<isRegistered, regVars, inviteVars, ackPending, wire>>
       ELSE UNCHANGED <<isRegistered, regVars, inviteVars, keepAliveTimer,
                        closeCalls, sock, ackPending, wire, thrown, phase>>

\* The CSeq number of a response, which the client never reads: a challenge
\* of a REGISTER answers one of the REGISTERs sent, whose number it echoes;
\* elsewhere the number is left out (0).
ResponseNums(status, cm) ==
  IF IsAuthChallenge(status) /\ cm = "register"
  THEN {wire[i].cseq : i \in FamilyIndices("REGISTER")}
  ELSE {0}

\* The methods of inbound requests: the two the client knows, one it never
\* expects and one it has never heard of.
RequestMethods == {"MESSAGE", "INVITE", "REGISTER", "PING"}

\* Where a datagram may come from: the server or any other host.
Peers == {"SIP_SERVER_HOST", "elsewhere"}

\* _handleRequest that answers the two methods it names and no other.
_handleRequest_knownOnly(method, rinfo) ==
  IF method \in {"MESSAGE", "INVITE"}
  THEN sendPacket(Reply(method, rinfo), phase)
  ELSE UNCHANGED <<wire, thrown, phase>>

\* _handleRequest({method, messageLines, rinfo}): each of the three branches
\* sends the 200 OK of _build200Ok to rinfo.address, rinfo.port.
_handleRequest(method, rinfo) ==
  IF method = "MESSAGE" THEN sendPacket(Reply(method, rinfo), phase)
  ELSE IF method = "INVITE" THEN sendPacket(Reply(method, rinfo), phase)
  ELSE sendPacket(Reply(method, rinfo), phase)

\* The challenge headers tried with a status: a response that is no challenge
\* carries none (the handler does not look for one).
ChallengesFor(status) == IF IsAuthChallenge(status) THEN Challenges ELSE {"none"}

\* ----------------------------------------------------------------- actions
\* main.js: client.start() calls transport.bind and installs the SIGINT handler.
Start ==
  /\ phase = "constructed"
  /\ phase' = "binding"
  /\ ev' = Event("start")
  /\ UNCHANGED <<call, mode, sock, isRegistered, regVars, inviteVars, timerVars,
                 ackPending, wire, closeCalls, thrown, invites>>

\* The bind callback of start(): the initial REGISTER, then the keep-alive
\* interval (rcv) or the settle-delay timeout (send).
Bound ==
  /\ phase = "binding"
  /\ SocketRunning(sock)
  /\ _sendRegister("running")
  /\ keepAliveTimer' = (mode = "rcv")
  /\ sendTimer' = (mode # "rcv")
  /\ ev' = Event("bound")
  /\ UNCHANGED <<call, mode, sock, isRegistered, inviteVars, ackPending, closeCalls,
                 invites>>

\* The setInterval callback: a keep-alive re-REGISTER.
KeepAlive ==
  /\ phase = "running"
  /\ keepAliveTimer
  /\ Len(wire) < MaxSends
  /\ _sendRegister(phase)
  /\ ev' = Event("keepalive")
  /\ UNCHANGED <<call, mode, sock, isRegistered, inviteVars, timerVars, ackPending,
                 closeCalls, invites>>

\* The setTimeout callback of send mode: the one MESSAGE.
SendTimer ==
  /\ phase = "running"
  /\ sendTimer
  /\ Len(wire) < MaxSends
  /\ sendTimer' = FALSE
  /\ _sendMessage
  /\ ev' = Event("sendtimer")
  /\ UNCHANGED <<call, mode, sock, isRegistered, regVars, inviteVars, keepAliveTimer,
                 ackPending, closeCalls, invites>>

\* A caller invokes _sendInvite (the alternative start() names for send mode).
SendInvite ==
  /\ phase = "running"
  /\ invites < MaxInvites
  /\ Len(wire) < MaxSends
  /\ invites' = invites + 1
  /\ _sendInvite
  /\ ev' = Event("invite")
  /\ UNCHANGED <<call, mode, sock, isRegistered, regVars, timerVars, ackPending,
                 closeCalls>>

\* socket.on('message') with a response: only a bound, open socket receives.
Response ==
  /\ phase = "running"
  /\ SocketRunning(sock)
  /\ Len(wire) < MaxSends
  /\ \E status \in Statuses, cm \in CseqMethods :
       \E num \in ResponseNums(status, cm), chal \in ChallengesFor(status) :
         /\ _handleResponse(status, cm, chal)
         /\ ev' = ResponseEvent(status, cm, num, chal)
  /\ UNCHANGED <<call, mode, sendTimer, invites>>

\* A request handler that takes an inbound REGISTER for a registration.
InboundRequest_marksRegistered ==
  /\ phase = "running"
  /\ SocketRunning(sock)
  /\ Len(wire) < MaxSends
  /\ \E method \in RequestMethods, rinfo \in Peers :
       /\ _handleRequest(method, rinfo)
       /\ isRegistered' = (isRegistered \/ method = "REGISTER")
       /\ ev' = RequestEvent(method, rinfo)
  /\ UNCHANGED <<call, mode, sock, regVars, inviteVars, timerVars,
                 ackPending, closeCalls, invites>>

\* socket.on('message') with a request.
InboundRequest ==
  /\ phase = "running"
  /\ SocketRunning(sock)
  /\ Len(wire) < MaxSends
  /\ \E method \in RequestMethods, rinfo \in Peers :
       /\ _handleRequest(method, rinfo)
       /\ ev' = RequestEvent(method, rinfo)
  /\ UNCHANGED <<call, mode, sock, isRegistered, regVars, inviteVars, timerVars,
                 ackPending, closeCalls, invites>>

\* The completion callback of an ACK send: close() in send mode.
AckDone ==
  /\ phase = "running"
  /\ ackPending > 0
  /\ ackPending' = ackPending - 1
  /\ IF ClosesAfterResponse(mode)
     THEN close(phase)
     ELSE UNCHANGED <<keepAliveTimer, closeCalls, sock, thrown, phase>>
  /\ ev' = Event("ackdone")
  /\ UNCHANGED <<call, mode, isRegistered, regVars, inviteVars, sendTimer, wire, invites>>

\* The completion callback of the send of _sendMessage, in the turn after the
\* send: _sendMessage hands sendPacket no cb, so the callback of socket.send
\* logs err when there is one and does nothing else.
SendDone ==
  /\ phase = "running"
  /\ ev.kind = "sendtimer"
  /\ \E err \in BOOLEAN : ev' = Event(IF err THEN "senderror" ELSE "sent")
  /\ UNCHANGED <<call, mode, phase, sock, isRegistered, regVars, inviteVars, timerVars,
                 ackPending, wire, closeCalls, thrown, invites>>

\* socket.on('error'): the handler closes the socket; nothing reopens it.
SocketError ==
  /\ phase \in {"binding", "running"}
  /\ SocketRunning(sock)
  /\ sock' = "closed"
  /\ ev' = Event("socketerror")
  /\ UNCHANGED <<call, mode, phase, isRegistered, regVars, inviteVars, timerVars,
                 ackPending, wire, closeCalls, thrown, invites>>

\* main.js, SIGINT: client.close(), then process.exit(0).
Interrupt ==
  /\ phase \in {"binding", "running"}
  /\ close("exited")
  /\ ev' = Event("sigint")
  /\ UNCHANGED <<call, mode, isRegistered, regVars, inviteVars, sendTimer, ackPending,
                 wire, invites>>

\* Node ends the process once nothing keeps the event loop alive.
LoopDrained ==
  /\ phase \in {"binding", "running"}
  /\ ~SocketRunning(sock)
  /\ ~keepAliveTimer
  /\ ~sendTimer
  /\ ackPending = 0
  /\ phase' = "exited"
  /\ ev' = Event("drained")
  /\ UNCHANGED <<call, mode, sock, isRegistered, regVars, inviteVars, timerVars,
                 ackPending, wire, closeCalls, thrown, invites>>

Next ==
  \/ Start
  \/ Bound
  \/ KeepAlive
  \/ SendTimer
  \/ SendDone
  \/ SendInvite
  \/ Response
  \/ AckDone
  \/ SocketError
  \/ Interrupt
  \/ LoopDrained

\* The client and a peer that answers: the transactions the client starts.
Spec == Init /\ [][Next]_vars

\* The client and peers that send it requests and answer none of its own.
NextInbound ==
  \/ Start
  \/ Bound
  \/ KeepAlive
  \/ SendTimer
  \/ InboundRequest
  \/ SocketError
  \/ Interrupt
  \/ LoopDrained

SpecInbound == Init /\ [][NextInbound]_vars

\* The client and a peer that both answers it and sends it requests; the
\* client itself starts no INVITE.
NextPeer ==
  \/ Start
  \/ Bound
  \/ KeepAlive
  \/ SendTimer
  \/ Response
  \/ InboundRequest
  \/ AckDone
  \/ SocketError
  \/ Interrupt
  \/ LoopDrained

SpecPeer == Init /\ [][NextPeer]_vars

\* What _handleRequest hands to sendPacket for a request with these lines:
\* src/SipClient.js builds one 200 OK with _build200Ok in each of its three
\* branches, the client with the protocol option one with _build200OkResponse.
RepliesWith200Ok(lines, n) == << _build200Ok(lines, n) >>
RepliesWith200OkResponse(lines) == << _build200OkResponse(lines) >>

\* ---- inbound requests to try
\* The headers a reply is built from.
ReplyHeaders == {"via:", "from:", "to:", "call-id:", "cseq:"}

\* The header name as the sender writes it.
Written(name, upper) ==
  CASE name = "via:" -> IF upper THEN "VIA:" ELSE "Via:"
    [] name = "from:" -> IF upper THEN "FROM:" ELSE "From:"
    [] name = "to:" -> IF upper THEN "TO:" ELSE "To:"
    [] name = "call-id:" -> IF upper THEN "CALL-ID:" ELSE "Call-ID:"
    [] name = "cseq:" -> IF upper THEN "CSEQ:" ELSE "CSeq:"

\* The To header: a bracketed URI, the same with a tag, or a bare URI.
ToKinds == {"bracketed", "tagged", "bare"}
ToLine(kind, upper) ==
  CASE kind = "bracketed" -> <<Written("to:", upper), "<sip:alice@host", ">">>
    [] kind = "tagged" -> <<Written("to:", upper), "<sip:alice@host>", ";tag=", "77">>
    [] kind = "bare" -> <<Written("to:", upper), "sip:alice@host">>

\* The non-empty lines of an inbound request that carries the headers in
\* `present`, with one or two Via lines when it has any.
RequestLines(present, toKind, vias, upper) ==
  << <<"MESSAGE", "sip:alice@host", "SIP/2.0">> >>
  \o (IF "via:" \in present
      THEN << <<Written("via:", upper), "SIP/2.0/UDP proxy;branch=z9hG4bK-p">> >>
           \o (IF vias = 2
               THEN << <<Written("via:", upper), "SIP/2.0/UDP caller;branch=z9hG4bK-c">> >>
               ELSE <<>>)
      ELSE <<>>)
  \o << <<"Max-Forwards:", "70">> >>
  \o (IF "to:" \in present THEN << ToLine(toKind, upper) >> ELSE <<>>)
  \o (IF "from:" \in present
      THEN << <<Written("from:", upper), "<sip:carol@peer>", ";tag=", "33">> >>
      ELSE <<>>)
  \o (IF "call-id:" \in present
      THEN << <<Written("call-id:", upper), "abc@peer">> >> ELSE <<>>)
  \o (IF "cseq:" \in present
      THEN << <<Written("cseq:", upper), "9", "MESSAGE">> >> ELSE <<>>)
  \o << <<"Content-Length:", "0">> >>

InboundRequests ==
  {RequestLines(present, toKind, vias, upper) :
     present \in SUBSET ReplyHeaders, toKind \in ToKinds, vias \in 1..2,
     upper \in BOOLEAN}

\* Math.floor(Math.random() * 9999), as written into the To line.
RandomTags == {"1234", "77"}

\* A request arrives and _handleRequest answers it.
InitReply ==
  /\ Constructed
  /\ \E f \in {"_build200Ok", "_build200OkResponse"}, lines \in InboundRequests :
       call = [fn |-> f, lines |-> lines, done |-> FALSE, sent |-> <<>>]

HandleWith200Ok ==
  /\ call.fn = "_build200Ok"
  /\ ~call.done
  /\ \E n \in RandomTags :
       call' = [call EXCEPT !.done = TRUE, !.sent = RepliesWith200Ok(call.lines, n)]
  /\ UNCHANGED clientVars

HandleWith200OkResponse ==
  /\ call.fn = "_build200OkResponse"
  /\ ~call.done
  /\ call' = [call EXCEPT !.done = TRUE, !.sent = RepliesWith200OkResponse(call.lines)]
  /\ UNCHANGED clientVars

NextReply == HandleWith200Ok \/ HandleWith200OkResponse

SpecReply == InitReply /\ [][NextReply]_vars

\* ------------------------------------------------- SipRequestBuilder.build
\* How long a body may be, in characters.
MaxBody == 2

\* The characters bodies are made of: one of each UTF-8 width.
Chars == {"a", "e-acute", "euro", "emoji"}

\* UTF-16 code units of a character: what String.length counts.
CodeUnits(c) == IF c = "emoji" THEN 2 ELSE 1

\* Bytes of a character in UTF-8: what Buffer.from(text, 'utf-8') holds.
Utf8Bytes(c) ==
  CASE c = "a" -> 1
    [] c = "e-acute" -> 2
    [] c = "euro" -> 3
    [] c = "emoji" -> 4

RECURSIVE Sum(_, _)
Sum(f, str) == IF str = <<>> THEN 0 ELSE f[Head(str)] + Sum(f, Tail(str))

\* bodyContent.length
StringLength(str) == Sum([c \in Chars |-> CodeUnits(c)], str)

\* Buffer.from(str, 'utf-8').length of sendPacket
ByteLength(str) == Sum([c \in Chars |-> Utf8Bytes(c)], str)

\* method.toUpperCase()
ToUpperCase(method) ==
  CASE method \in {"REGISTER", "register"} -> "REGISTER"
    [] method \in {"MESSAGE", "Message"} -> "MESSAGE"
    [] method \in {"INVITE", "invite"} -> "INVITE"
    [] method \in {"ACK", "ack"} -> "ACK"
    [] method \in {"OPTIONS", "options"} -> "OPTIONS"
    [] method \in {"BYE", "bye"} -> "BYE"
    [] method \in {"PING", "Ping"} -> "PING"
    [] method \in {"SIP/2.0", "sip/2.0"} -> "SIP/2.0"
    [] method = "200" -> "200"

\* let length = bodyContent.length
RenderedLength(body) == StringLength(body)

\* The lines of the switch of build() for a supported method.
MethodLines(method, body) ==
  LET length == ToString(RenderedLength(body))
      viaHeader == <<"Via:", "SIP/2.0/UDP localIp:localPort;branch=", "branch", ";rport">>
      fromHeader == <<"From:", "<sip:fromUser@domain>", ";tag=", "fromTag">>
      callIdHeader == <<"Call-ID:", "callId">>
      cseqHeader == <<"CSeq:", "cseqNumber", method>>
      maxForwards == <<"Max-Forwards:", "70">>
  IN  CASE method = "REGISTER" ->
             << <<method, "sip:domain", "SIP/2.0">>, viaHeader, maxForwards,
                <<"To:", "<sip:fromUser@domain>">>, fromHeader, callIdHeader,
                cseqHeader, <<"Contact:", "<contactUri>">>, <<"Expires:", "expires">>,
                <<"User-Agent:", "Node-SIP-Demo">>, <<"Content-Length:", length>> >>
        [] method = "MESSAGE" ->
             << <<method, "sip:toUser@domain", "SIP/2.0">>, viaHeader, maxForwards,
                <<"To:", "<sip:toUser@domain>">>, fromHeader, callIdHeader,
                cseqHeader, <<"Content-Type:", "contentType">>,
                <<"Content-Length:", length>> >>
        [] method = "INVITE" ->
             << <<method, "sip:toUser@domain", "SIP/2.0">>, viaHeader, maxForwards,
                <<"To:", "<sip:toUser@domain>">>, fromHeader, callIdHeader,
                cseqHeader, <<"Contact:", "<sip:fromUser@localIp:localPort>">>,
                <<"Content-Type:", "application/sdp">>,
                <<"Content-Length:", length>> >>
        [] method = "ACK" ->
             << <<method, "sip:toUser@domain", "SIP/2.0">>, viaHeader, maxForwards,
                <<"To:", "<sip:toUser@domain>">>, fromHeader, callIdHeader,
                <<"CSeq:", "cseqNumber", "ACK">>, <<"Content-Length:", "0">> >>

\* this.authHeader = authHeader || null
NoHeader == <<>>

\* lines.findIndex(l => l.toLowerCase().startsWith('cseq:')), 0 for -1.
CseqIndex(lines) ==
  IF \E i \in DOMAIN lines : StartsWith(lines[i], "cseq:")
  THEN CHOOSE i \in DOMAIN lines :
         /\ StartsWith(lines[i], "cseq:")
         /\ \A j \in 1..(i - 1) : ~StartsWith(lines[j], "cseq:")
  ELSE 0

\* AuthPosition that puts the authHeader after the last header line.
AuthPosition_end(lines) == Len(lines)

\* Where the authHeader goes: lines.splice(cseqIndex + 1, 0, authHeader), the
\* number of lines that stay in front of it.
AuthPosition(lines) == CseqIndex(lines)

\* The block `if (this.authHeader) {...}` of build().
WithAuthHeader(lines, authHeader) ==
  IF authHeader = NoHeader THEN lines
  ELSE IF CseqIndex(lines) > 0
  THEN SubSeq(lines, 1, AuthPosition(lines)) \o <<authHeader>>
         \o SubSeq(lines, AuthPosition(lines) + 1, Len(lines))
  ELSE Append(lines, authHeader)

\* The methods the switch of build() has a case for.
Supported == {"REGISTER", "MESSAGE", "INVITE", "ACK"}

\* build that renders a method it has no case for as it renders MESSAGE.
build_lenient(method, body, authHeader) ==
  LET m == ToUpperCase(method)
  IN  [threw |-> FALSE,
       lines |-> WithAuthHeader(MethodLines(IF m \in Supported THEN m ELSE "MESSAGE",
                                            body), authHeader)
                   \o <<EmptyLine, body>>]

\* new SipRequestBuilder({method, body, authHeader, ...}).build(): the lines
\* of the message (joined by CRLF), or the error thrown.
build(method, body, authHeader) ==
  LET m == ToUpperCase(method)
  IN  IF m \notin Supported
      THEN [threw |-> TRUE, lines |-> <<>>]
      ELSE [threw |-> FALSE,
            lines |-> WithAuthHeader(MethodLines(m, body), authHeader)
                        \o <<EmptyLine, body>>]

\* ---- build inputs to try
Methods == {"REGISTER", "register", "MESSAGE", "INVITE", "invite", "ACK", "ack",
            "OPTIONS", "bye"}
Bodies == UNION {[1..n -> Chars] : n \in 0..MaxBody}
AuthHeaders ==
  {NoHeader, <<"Authorization:", "Digest", "credentials">>,
   <<"Proxy-Authorization:", "Digest", "credentials">>}

InitBuild ==
  /\ Constructed
  /\ \E method \in Methods, body \in Bodies, authHeader \in AuthHeaders :
       call = [fn |-> "build", method |-> method, body |-> body,
               authHeader |-> authHeader, done |-> FALSE, threw |-> FALSE,
               lines |-> <<>>]

Build ==
  /\ call.fn = "build"
  /\ ~call.done
  /\ LET r == build(call.method, call.body, call.authHeader)
     IN  call' = [call EXCEPT !.done = TRUE, !.threw = r.threw, !.lines = r.lines]
  /\ UNCHANGED clientVars

SpecBuild == InitBuild /\ [][Build]_vars

\* ------------------------------------------------------ parseSipFirstLine
\* A line is the sequence of its pieces: the space, and stretches of text
\* without a space that are kept whole.
MaxLine == 5
Space == " "
Pieces == {Space, "SIP/2.0", "sip/2.0", "200", "Ping"}
Digits == {"200"}

\* line.split(' '): the stretches between the spaces, empty ones included.
RECURSIVE Split(_, _)
Split(line, word) ==
  IF line = <<>> THEN <<word>>
  ELSE IF Head(line) = Space THEN <<word>> \o Split(Tail(line), <<>>)
  ELSE Split(Tail(line), Append(word, Head(line)))

\* parts.join(' ')
RECURSIVE Join(_)
Join(parts) ==
  IF parts = <<>> THEN <<>>
  ELSE IF Len(parts) = 1 THEN parts[1]
  ELSE parts[1] \o <<Space>> \o Join(Tail(parts))

\* parseInt(str, 10): the digits str begins with, as the number they spell;
\* NaN when it begins with none or is undefined.
NaN == <<>>
RECURSIVE ParseInt(_)
ParseInt(str) ==
  IF str = <<>> \/ Head(str) \notin Digits THEN NaN
  ELSE <<Head(str)>> \o ParseInt(Tail(str))

\* str.toUpperCase() of a word
UpperCased(word) == [i \in DOMAIN word |-> ToUpperCase(word[i])]

\* startsWith that is content with the version and asks for no space after it.
StartsWithSip_noSpace(line) == Len(line) >= 1 /\ line[1] = "SIP/2.0"

\* line.startsWith('SIP/2.0 ')
StartsWithSip(line) == Len(line) >= 2 /\ line[1] = "SIP/2.0" /\ line[2] = Space

\* parseSipFirstLine(line)
parseSipFirstLine(line) ==
  LET parts == Split(line, <<>>)
  IN  IF StartsWithSip(line)
      THEN [isResponse |-> TRUE,
            statusCode |-> IF Len(parts) >= 2 THEN ParseInt(parts[2]) ELSE NaN,
            reason |-> Join(SubSeq(parts, 3, Len(parts)))]
      ELSE [isResponse |-> FALSE, method |-> UpperCased(parts[1])]

\* The text of a datagram is the sequence of its symbols: CRLF, the space
\* and the pieces of its lines.
CRLF == "crlf"

\* text.split('\r\n'): the lines between the CRLFs.
RECURSIVE SplitLines(_, _)
SplitLines(text, line) ==
  IF text = <<>> THEN <<line>>
  ELSE IF Head(text) = CRLF THEN <<line>> \o SplitLines(Tail(text), <<>>)
  ELSE SplitLines(Tail(text), Append(line, Head(text)))

\* A filter that keeps every line, the empty ones too.
FilterBoolean_keepAll(lines) == lines

\* lines.filter(Boolean): the lines that are not the empty string.
RECURSIVE FilterBoolean(_)
FilterBoolean(lines) ==
  IF lines = <<>> THEN <<>>
  ELSE (IF Head(lines) = EmptyLine THEN <<>> ELSE <<Head(lines)>>)
         \o FilterBoolean(Tail(lines))

\* ---- datagrams to try
Texts == UNION {[1..n -> Pieces \cup {CRLF}] : n \in 0..MaxLine}

\* A datagram with this text arrives; no callback has run.
InitParse ==
  /\ Constructed
  /\ \E text \in Texts :
       call = [fn |-> "message", text |-> text, done |-> FALSE, line |-> <<>>,
               delivered |-> <<>>, messageLines |-> <<>>, parsed |-> <<>>]

\* socket.on('message'): split into lines, drop the empty ones, return when
\* none is left, else parse the first and call onResponse or onRequest with
\* the lines. `delivered` lists the callbacks invoked, `line` is firstLine.
Message ==
  /\ call.fn = "message"
  /\ ~call.done
  /\ LET lines == FilterBoolean(SplitLines(call.text, <<>>))
     IN  IF lines = <<>>
         THEN call' = [call EXCEPT !.done = TRUE]
         ELSE LET parsed == parseSipFirstLine(lines[1])
              IN  call' = [call EXCEPT !.done = TRUE, !.line = lines[1],
                             !.parsed = parsed, !.messageLines = lines,
                             !.delivered = IF parsed.isResponse
                                           THEN <<"onResponse">>
                                           ELSE <<"onRequest">>]
  /\ UNCHANGED clientVars

SpecParse == InitParse /\ [][Message]_vars

\* ------------------------------------------------------------ TCP framing
\* The byte stream of a connection is the sequence of its symbols: CRLF, a
\* body byte, or a token of a header line; each counts as one byte.
MaxMessages == 2

\* Where the first CRLF CRLF of the buffer begins; 0 when it has none.
SeparatorAt(buffer) ==
  LET at == {i \in 1..(Len(buffer) - 1) : buffer[i] = CRLF /\ buffer[i + 1] = CRLF}
  IN  IF at = {} THEN 0 ELSE CHOOSE i \in at : \A j \in at : i <= j

\* The number a Content-Length value spells.
Number(token) == CASE token = "0" -> 0 [] token = "1" -> 1 [] token = "2" -> 2

\* Content-Length of a header block: the value of the header matched without
\* regard to case, 0 when the block has none.
ContentLength(headerBlock) ==
  LET line == FindLine(SplitLines(headerBlock, <<>>), "content-length:")
  IN  IF line = EmptyLine THEN 0 ELSE Number(line[2])

\* The framing loop: while the buffer holds a header block and the body its
\* Content-Length announces, slice that message off and dispatch it, then
\* scan again; stop when a message is not complete yet.
RECURSIVE Frame(_, _)
Frame(buffer, dispatched) ==
  LET sep == SeparatorAt(buffer)
      headerEnd == sep + 1
      total == headerEnd + ContentLength(SubSeq(buffer, 1, sep - 1))
  IN  IF sep = 0 \/ Len(buffer) < total
      THEN [buffer |-> buffer, dispatched |-> dispatched]
      ELSE Frame(SubSeq(buffer, total + 1, Len(buffer)),
                 Append(dispatched, SubSeq(buffer, 1, total)))

\* ---- complete messages to try: a request or a response, without
\* Content-Length, or with it in either case and a body of that length,
\* which may itself hold CRLF CRLF.
FirstLines == {"Ping", "SIP/2.0"}
CompleteMessages ==
  UNION {{<<first, CRLF, CRLF>>,
          <<first, CRLF, "Content-Length:", "1", CRLF, CRLF, "b">>,
          <<first, CRLF, "CONTENT-LENGTH:", "2", CRLF, CRLF, CRLF, CRLF>>}
         : first \in FirstLines}
MessageSequences == UNION {[1..n -> CompleteMessages] : n \in 1..MaxMessages}

RECURSIVE Concatenated(_)
Concatenated(msgs) ==
  IF msgs = <<>> THEN <<>> ELSE Head(msgs) \o Concatenated(Tail(msgs))

\* The connection is up and the peer is about to write these messages.
InitFramer ==
  /\ Constructed
  /\ \E msgs \in MessageSequences :
       call = [fn |-> "framer", msgs |-> msgs, stream |-> Concatenated(msgs),
               buffer |-> <<>>, dispatched |-> <<>>, chunks |-> 0]

\* socket.on('data') with the next chunk of the stream, of any size: append
\* it to the buffer and run the framing loop.
Data ==
  /\ call.fn = "framer"
  /\ \E n \in 1..Len(call.stream) :
       LET chunk == SubSeq(call.stream, 1, n)
           framed == Frame(call.buffer \o chunk, <<>>)
       IN  call' = [call EXCEPT !.stream = SubSeq(call.stream, n + 1, Len(call.stream)),
                                !.buffer = framed.buffer,
                                !.dispatched = call.dispatched \o framed.dispatched,
                                !.chunks = call.chunks + 1]
  /\ UNCHANGED clientVars

SpecFramer == InitFramer /\ [][Data]_vars

\* ------------------------------------------------------------------ claims
\* What the claims read off a step: the response it handled (ev') and what
\* was on the wire before and after.
HandledResponse == ev'.kind = "response"
TwoHundreds == 200..299
Challenge == {401, 407}
Sent(method) == \E i \in DOMAIN wire : wire[i].method = method
NothingSent == wire' = wire
OneSent == Len(wire') = Len(wire) + 1 /\ SubSeq(wire', 1, Len(wire)) = wire
Newest == wire'[Len(wire')]
\* The INVITE sent last.
LastInvite ==
  wire[CHOOSE i \in DOMAIN wire :
         /\ wire[i].method = "INVITE"
         /\ \A j \in DOMAIN wire : wire[j].method = "INVITE" => j <= i]
\* The REGISTER whose CSeq number the response handled in this step echoes.
Challenged ==
  wire[CHOOSE i \in DOMAIN wire :
         wire[i].method = "REGISTER" /\ wire[i].cseq = ev'.num]

\* C1: in send mode, handling a 2xx response whose CSeq method is MESSAGE,
\* after the MESSAGE was sent, invokes close() once, the first and only close
\* that takes effect; the transport is closed afterwards, and no later step
\* (a further event, the operator interrupt) reopens a closed transport, so no
\* second close can take effect.
C1_MessageAcceptedClosesOnce ==
  [][ /\ ( /\ HandledResponse
           /\ ev'.status \in TwoHundreds
           /\ ev'.cm = "message"
           /\ mode = "send"
           /\ Sent("MESSAGE") )
         => (closeCalls = 0 /\ closeCalls' = 1 /\ sock' = "closed" /\ thrown' = "none")
      /\ (sock = "closed" => sock' = "closed") ]_vars

C1_Witness ==
  /\ mode = "send"
  /\ ev.kind = "response" /\ ev.status = 200 /\ ev.cm = "message"
  /\ Sent("MESSAGE")
  /\ closeCalls = 1
  /\ sock = "closed"

\* C2: in send mode, handling a response to the MESSAGE whose status is
\* neither 2xx nor 401/407 invokes close() exactly once and sends no request.
C2_MessageFailureClosesNoRetry ==
  [][ ( /\ HandledResponse
        /\ ev'.status \notin TwoHundreds \cup Challenge
        /\ ev'.cm = "message"
        /\ mode = "send"
        /\ Sent("MESSAGE") )
      => (closeCalls = 0 /\ closeCalls' = 1 /\ sock' = "closed" /\ NothingSent) ]_vars

C2_Witness ==
  /\ mode = "send"
  /\ ev.kind = "response" /\ ev.status = 484 /\ ev.cm = "message"
  /\ Sent("MESSAGE")
  /\ closeCalls = 1
  /\ sock = "closed"

\* C3: a 401 with a well-formed WWW-Authenticate challenge answering a sent
\* REGISTER makes the client send exactly one further REGISTER, with an
\* Authorization header, a CSeq number one greater than that of the challenged
\* REGISTER and a Via branch other than that REGISTER's, also when keep-alive
\* REGISTERs were sent in between.
C3_RegisterChallengeRetry ==
  [][ ( /\ HandledResponse
        /\ ev'.status = 401
        /\ ev'.cm = "register"
        /\ ev'.chal = "www" )
      => ( /\ OneSent
           /\ Newest.method = "REGISTER"
           /\ Newest.auth = "Authorization"
           /\ Newest.cseq = Challenged.cseq + 1
           /\ Newest.branch # Challenged.branch ) ]_vars

\* C4: handling a 2xx response whose CSeq method is REGISTER sets isRegistered,
\* sends no request and does not close the client, in either mode.
C4_RegisterAccepted ==
  [][ ( /\ HandledResponse
        /\ ev'.status \in TwoHundreds
        /\ ev'.cm = "register" )
      => ( /\ isRegistered' = TRUE
           /\ NothingSent
           /\ closeCalls' = closeCalls
           /\ sock' = sock
           /\ phase' = phase ) ]_vars

C4_Witness ==
  /\ mode = "send"
  /\ ev.kind = "response" /\ ev.status = 299 /\ ev.cm = "register"
  /\ isRegistered
  /\ sock = "open"
  /\ closeCalls = 0

\* C5: handling a 2xx response whose CSeq method is INVITE, after an INVITE
\* (initial or authenticated retry) was sent, sends exactly one request, an
\* ACK with the Call-ID and From-tag of that INVITE and the CSeq number of the
\* INVITE sent last.
C5_InviteAcceptedAck ==
  [][ ( /\ HandledResponse
        /\ ev'.status \in TwoHundreds
        /\ ev'.cm = "invite"
        /\ Sent("INVITE") )
      => ( /\ OneSent
           /\ Newest.method = "ACK"
           /\ Newest.callId = LastInvite.callId
           /\ Newest.fromTag = LastInvite.fromTag
           /\ Newest.cseq = LastInvite.cseq ) ]_vars

C5_Witness ==
  /\ ev.kind = "response" /\ ev.status = 200 /\ ev.cm = "invite"
  /\ Len(wire) >= 3
  /\ wire[Len(wire)].method = "ACK"
  /\ wire[Len(wire) - 1].fn = "_sendInviteWithAuth"
  /\ wire[Len(wire) - 2].fn = "_sendInvite"
  /\ wire[Len(wire)].cseq = InitialCseq + 1

\* C6: in each family that began with its initial request, every later
\* REGISTER, MESSAGE or INVITE (keep-alive or authenticated retry) carries a
\* CSeq number greater than every CSeq number the family sent before.
IsResend(j) ==
  \/ wire[j].fn \in {"_sendRegisterWithAuth", "_sendMessageWithAuth", "_sendInviteWithAuth"}
  \/ wire[j].fn = "_sendRegister" /\ \E i \in 1..(j - 1) : wire[i].method = "REGISTER"
BeganWithInitial(method) ==
  \A i \in DOMAIN wire :
    (wire[i].method = method /\ \A h \in 1..(i - 1) : wire[h].method # method)
      => wire[i].fn \in {"_sendRegister", "_sendMessage", "_sendInvite"}
C6_CseqStrictlyIncreases ==
  \A j \in DOMAIN wire :
    (IsResend(j) /\ BeganWithInitial(wire[j].method))
      => \A i \in 1..(j - 1) :
           wire[i].method = wire[j].method => wire[j].cseq > wire[i].cseq

\* C7: the Via branches of the REGISTERs sent in a run are pairwise distinct,
\* and so are those of the MESSAGEs and those of the INVITEs of one call.
C7_BranchesDistinct ==
  \A i, j \in DOMAIN wire :
    ( /\ i < j
      /\ wire[i].method = wire[j].method
      /\ wire[i].method \in {"REGISTER", "MESSAGE", "INVITE"}
      /\ wire[i].method = "INVITE" => wire[i].callId = wire[j].callId )
    => wire[i].branch # wire[j].branch

\* C8: isRegistered is false at first, changes only by becoming true in the
\* handling of a 2xx response whose CSeq method is REGISTER, and is never set
\* back to false.
C8_RegisteredOnlyRises ==
  /\ isRegistered = FALSE
  /\ [][ (isRegistered' # isRegistered)
         => ( /\ isRegistered' = TRUE
              /\ HandledResponse
              /\ ev'.status \in TwoHundreds
              /\ ev'.cm = "register" ) ]_vars

C8_Witness ==
  /\ isRegistered
  /\ closeCalls = 2
  /\ phase = "crashed"
  /\ Len(wire) >= 2

\* C9: a second close(), invoked on a client whose transport is already
\* closed, does not throw.
C9_SecondCloseDoesNotThrow == closeCalls >= 2 => thrown # "close"

\* C10: a send through a closed transport does not throw (it reports
\* TransportClosed to the completion callback and puts nothing on the wire).
C10_SendAfterCloseDoesNotThrow == thrown # "send"

\* The step is the expiry of the one-shot settle-delay timer of send mode.
SettleTimerFires == sendTimer /\ ~sendTimer'

\* C11: in send mode, when close() was called before the settle-delay timer
\* fires, the firing transmits nothing and raises no error.
C11_LateSettleTimerHarmless ==
  [][ (SettleTimerFires /\ mode = "send" /\ closeCalls >= 1)
      => (NothingSent /\ thrown' = "none" /\ phase' = phase) ]_vars

\* The socket was closed by its own error handler, not by close().
SocketFailed == ~SocketRunning(sock) /\ closeCalls = 0

\* C12: in send mode the expiry of the settle delay transmits the initial
\* MESSAGE, whatever responses the REGISTER has had by then (none, a 2xx, a
\* challenge or another non-2xx), and that MESSAGE is the only initial one.
C12_SettleTimerSendsMessage ==
  [][ (SettleTimerFires /\ mode = "send" /\ ~SocketFailed)
      => ( /\ OneSent
           /\ Newest.fn = "_sendMessage"
           /\ \A i \in DOMAIN wire : wire[i].fn # "_sendMessage" ) ]_vars

\* The step is an expiry of the keep-alive interval timer.
KeepAliveFires == keepAliveTimer /\ ev'.kind = "keepalive"

\* C13: in receive mode the bind callback sends the initial REGISTER; as long
\* as close() has not been called every expiry of the keep-alive timer sends
\* one further REGISTER; once close() has been called the timer is cancelled
\* and no REGISTER is sent any more.
C13_KeepAliveUntilClose ==
  [][ /\ (ev'.kind = "bound" /\ mode = "rcv")
         => (OneSent /\ Newest.fn = "_sendRegister" /\ keepAliveTimer')
      /\ (KeepAliveFires /\ mode = "rcv" /\ closeCalls = 0)
         => (OneSent /\ Newest.fn = "_sendRegister" /\ keepAliveTimer')
      /\ (mode = "rcv" /\ closeCalls' >= 1)
         => (~keepAliveTimer' /\ NothingSent) ]_vars

\* The response handled carries a usable challenge: the header that goes with
\* its status code, with a quoted realm and a quoted nonce.
UsableChallenge ==
  \/ ev'.status = 401 /\ ev'.chal \in {"www", "both"}
  \/ ev'.status = 407 /\ ev'.chal \in {"proxy", "both"}

\* C14: a 401/407 without a usable challenge makes the client resend nothing,
\* leaves regCseq, inviteCseq, regBranch, inviteBranch and isRegistered as they
\* were and does not close the client.
C14_UnusableChallengeStalls ==
  [][ (HandledResponse /\ ev'.status \in Challenge /\ ~UsableChallenge)
      => ( /\ NothingSent
           /\ UNCHANGED <<regCseq, inviteCseq, regBranch, inviteBranch, isRegistered>>
           /\ closeCalls' = closeCalls
           /\ sock' = sock
           /\ thrown' = thrown
           /\ phase' = phase ) ]_vars

C14_Witness ==
  /\ mode = "send"
  /\ ev.kind = "response" /\ ev.status = 401 /\ ev.cm = "message"
  /\ ev.chal = "www-malformed"
  /\ Len(wire) = 2
  /\ wire[2].fn = "_sendMessage"
  /\ SocketRunning(sock)
  /\ closeCalls = 0

\* The response handled names one of the three methods in its CSeq.
KnownCseqMethod == ev'.cm \in {"register", "message", "invite"}

\* C15: the status code alone selects the challenge kind.  A 401 is answered
\* only from a WWW-Authenticate header, with an Authorization header; a 407
\* only from a Proxy-Authenticate header, with a Proxy-Authorization header;
\* a 401 with only Proxy-Authenticate, or a 407 with only WWW-Authenticate,
\* gets no retry.
C15_ChallengeKindByStatus ==
  [][ (HandledResponse /\ ev'.status \in Challenge /\ KnownCseqMethod)
      => ( /\ (ev'.status = 401 /\ ev'.chal \in {"www", "both"})
                => ( /\ OneSent
                     /\ Newest.auth = "Authorization"
                     /\ Newest.digest.realm = "www-realm"
                     /\ Newest.digest.nonce = "www-nonce" )
           /\ (ev'.status = 407 /\ ev'.chal \in {"proxy", "both"})
                => ( /\ OneSent
                     /\ Newest.auth = "Proxy-Authorization"
                     /\ Newest.digest.realm = "proxy-realm"
                     /\ Newest.digest.nonce = "proxy-nonce" )
           /\ (ev'.status = 401 /\ ev'.chal \in {"proxy", "proxy-malformed"})
                => NothingSent
           /\ (ev'.status = 407 /\ ev'.chal \in {"www", "www-malformed"})
                => NothingSent ) ]_vars

C15_Witness ==
  /\ ev.kind = "response" /\ ev.status = 407 /\ ev.chal = "both"
  /\ ev.cm = "invite"
  /\ Len(wire) >= 2
  /\ wire[Len(wire)].fn = "_sendInviteWithAuth"
  /\ wire[Len(wire)].auth = "Proxy-Authorization"
  /\ wire[Len(wire)].digest.realm = "proxy-realm"

\* The method a lower-cased CSeq method token names.
MethodOf(cm) ==
  CASE cm = "register" -> "REGISTER"
    [] cm = "message" -> "MESSAGE"
    [] cm = "invite" -> "INVITE"
    [] OTHER -> "none"

\* C16: each 401/407 with a well-formed challenge makes the client resend
\* exactly one request, of the method the response's CSeq names (REGISTER,
\* MESSAGE or INVITE) and with a Digest credential header; when the CSeq names
\* none of the three nothing is sent.  A request with credentials is sent only
\* in the handling of a challenge, so none is answered twice.
C16_OneRetryPerChallenge ==
  [][ /\ (HandledResponse /\ ev'.status \in Challenge /\ UsableChallenge)
         => IF KnownCseqMethod
            THEN /\ OneSent
                 /\ Newest.method = MethodOf(ev'.cm)
                 /\ Newest.auth \in {"Authorization", "Proxy-Authorization"}
                 /\ Newest.digest.type = Newest.auth
            ELSE NothingSent
      /\ (wire' # wire /\ Newest.auth # "none")
         => (HandledResponse /\ ev'.status \in Challenge /\ OneSent) ]_vars

C16_Witness ==
  /\ mode = "send"
  /\ ev.kind = "response" /\ ev.status = 401 /\ ev.chal = "www"
  /\ ev.cm = "message"
  /\ Len(wire) = 4
  /\ wire[2].fn = "_sendMessage"
  /\ wire[3].fn = "_sendMessageWithAuth"
  /\ wire[4].fn = "_sendMessageWithAuth"

\* Request i is the latest request of request j's method sent before j.
Preceding(i, j) ==
  /\ i < j
  /\ wire[i].method = wire[j].method
  /\ \A h \in (i + 1)..(j - 1) : wire[h].method # wire[j].method

\* C17: an authenticated retry (REGISTER, MESSAGE or INVITE) carries the
\* From-tag of the request of its family sent before it, the challenged one.
C17_RetryKeepsFromTag ==
  \A j \in DOMAIN wire :
    wire[j].fn \in {"_sendRegisterWithAuth", "_sendMessageWithAuth", "_sendInviteWithAuth"}
      => \A i \in DOMAIN wire :
           Preceding(i, j) => wire[j].fromTag = wire[i].fromTag

\* C18: every REGISTER sent in a run (the initial one, the keep-alives and
\* the authenticated retries, in any order) carries one Call-ID, the one made
\* in the constructor, which never changes.
C18_RegisterCallIdStable ==
  /\ [](\A i \in DOMAIN wire :
          wire[i].method = "REGISTER" => wire[i].callId = regCallId)
  /\ [][regCallId' = regCallId]_vars

C18_Witness ==
  /\ Len(wire) = 4
  /\ wire[1].fn = "_sendRegister"
  /\ wire[2].fn = "_sendRegisterWithAuth"
  /\ wire[3].fn = "_sendRegister"
  /\ wire[4].fn = "_sendRegisterWithAuth"
  /\ \A i \in 1..4 : wire[i].callId = regCallId

\* The request-URI each method has on its request line.
UriOf(method) ==
  IF method = "REGISTER" THEN <<"sip:", "SIP_SERVER_HOST">>
                         ELSE <<"sip:", "toUser", "@", "SIP_SERVER_HOST">>

\* MD5(MD5(user:realm:password):nonce:MD5(METHOD:uri)).
DigestResponse(realm, nonce, method, uri) ==
  md5(<<md5(<<"fromUser", ":", realm, ":", "password">>), ":", nonce, ":",
        md5(<<method, ":", uri>>)>>)

\* C19: in the Digest header of the retry that answers a challenge, the uri
\* attribute (also the uri hashed into HA2) is the request-URI on the retry's
\* request line, sip:domain for REGISTER and sip:toUser@domain for MESSAGE and
\* INVITE; the method hashed is the retry's method; realm and nonce are those
\* of the challenge; response is MD5(MD5(user:realm:password):nonce:MD5(METHOD:uri)).
C19_DigestMatchesRequest ==
  [][ (HandledResponse /\ ev'.status \in Challenge /\ UsableChallenge /\ KnownCseqMethod)
      => LET realm == IF ev'.status = 407 THEN "proxy-realm" ELSE "www-realm"
             nonce == IF ev'.status = 407 THEN "proxy-nonce" ELSE "www-nonce"
         IN  /\ OneSent
             /\ Newest.uri = UriOf(Newest.method)
             /\ Newest.digest.uri = Newest.uri
             /\ Newest.digest.realm = realm
             /\ Newest.digest.nonce = nonce
             /\ Newest.digest.response
                  = DigestResponse(realm, nonce, Newest.method, Newest.uri) ]_vars

C19_Witness ==
  /\ ev.kind = "response" /\ ev.status = 407 /\ ev.chal = "proxy"
  /\ ev.cm = "message"
  /\ Len(wire) >= 2
  /\ wire[Len(wire)].fn = "_sendMessageWithAuth"
  /\ wire[Len(wire)].digest.uri = <<"sip:", "toUser", "@", "SIP_SERVER_HOST">>
  /\ wire[Len(wire)].digest.response
       = DigestResponse("proxy-realm", "proxy-nonce", "MESSAGE",
                        <<"sip:", "toUser", "@", "SIP_SERVER_HOST">>)

\* C20: every inbound request, whatever its method, is answered with exactly
\* one 200 OK, sent to the address and port it came from; a 200 OK is sent
\* for nothing else.
C20_InboundRequestAnswered ==
  [][ /\ (ev'.kind = "request")
         => ( /\ OneSent
              /\ Newest.method = "SIP/2.0"
              /\ Newest.status = 200
              /\ Newest.request = ev'.method
              /\ Newest.to = ev'.rinfo )
      /\ (wire' # wire /\ Newest.method = "SIP/2.0") => ev'.kind = "request" ]_vars

C20_Witness ==
  /\ ev.kind = "request" /\ ev.method = "PING" /\ ev.rinfo = "elsewhere"
  /\ Len(wire) = 3
  /\ wire[2] = Reply("REGISTER", "SIP_SERVER_HOST")
  /\ wire[3] = Reply("PING", "elsewhere")

\* The reply-building call under examination has returned.
Replied == call.fn \in {"_build200Ok", "_build200OkResponse"} /\ call.done

\* The request has each of the five headers a reply is built from.
HasHeader(lines, name) == \E i \in DOMAIN lines : StartsWith(lines[i], name)
CompleteRequest(lines) == \A name \in ReplyHeaders : HasHeader(lines, name)

\* C21: the 200 OK for an inbound request carries the request's Via, From,
\* To, Call-ID and CSeq lines unchanged (the To line too), then the Server
\* header and Content-Length: 0, and ends with an empty body.
C21_ReplyCopiesHeaders ==
  (Replied /\ CompleteRequest(call.lines))
    => /\ Len(call.sent) = 1
       /\ LET ok == call.sent[1]
              k == Len(ok)
          IN  /\ ok[1] = <<"SIP/2.0 200 OK">>
              /\ \A i \in DOMAIN call.lines :
                   (\E name \in ReplyHeaders : StartsWith(call.lines[i], name))
                     => \E j \in DOMAIN ok : ok[j] = call.lines[i]
              /\ k >= 5
              /\ ok[k - 3] = <<"Server:", "Node-SIP-Demo">>
              /\ ok[k - 2] = <<"Content-Length:", "0">>
              /\ ok[k - 1] = EmptyLine
              /\ ok[k] = EmptyLine

\* C22: an inbound request without one of the five headers is dropped: no
\* reply is sent for it.
C22_IncompleteRequestDropped ==
  (Replied /\ ~CompleteRequest(call.lines)) => call.sent = <<>>

\* The build call under examination has returned or thrown.
Built == call.fn = "build" /\ call.done

\* The Content-Length line of the built message.
ContentLengthLine(lines) == FindLine(lines, "content-length:")

\* C23: for REGISTER, MESSAGE and INVITE the rendered Content-Length is the
\* number of bytes the body takes on the wire (UTF-8), multi-byte characters
\* included; for ACK it is 0 whatever the body.
C23_ContentLengthIsByteLength ==
  (Built /\ ~call.threw)
    => ContentLengthLine(call.lines)
         = <<"Content-Length:",
             IF ToUpperCase(call.method) = "ACK" THEN "0"
             ELSE ToString(ByteLength(call.body))>>

\* C28: build() fails for every method other than REGISTER, MESSAGE, INVITE
\* and ACK, whatever its letter case; the failure is raised to the caller of
\* that call and no message text comes out of it.
C28_UnsupportedMethodFails ==
  (Built /\ ToUpperCase(call.method) \notin {"REGISTER", "MESSAGE", "INVITE", "ACK"})
    => (call.threw /\ call.lines = <<>>)

C28_Witness ==
  /\ Built
  /\ call.method = "bye"
  /\ call.authHeader # NoHeader
  /\ call.threw

\* The same build without the authHeader.
PlainLines == build(call.method, call.body, NoHeader).lines

\* C30: with an authHeader, build() puts it on the line right after the CSeq
\* line, for each of the four methods, and every other line is where and what
\* it is in the same build without authHeader.
C30_AuthHeaderAfterCseq ==
  (Built /\ ~call.threw /\ call.authHeader # NoHeader)
    => \E i \in DOMAIN call.lines :
         /\ i > 1
         /\ call.lines[i] = call.authHeader
         /\ StartsWith(call.lines[i - 1], "cseq:")
         /\ SubSeq(call.lines, 1, i - 1) \o SubSeq(call.lines, i + 1, Len(call.lines))
              = PlainLines

C30_Witness ==
  /\ Built
  /\ call.method = "ack"
  /\ call.authHeader = <<"Proxy-Authorization:", "Digest", "credentials">>
  /\ call.body = <<"euro">>
  /\ call.lines[7] = <<"CSeq:", "cseqNumber", "ACK">>
  /\ call.lines[8] = call.authHeader

\* C24: in send mode a MESSAGE whose send completes with an error makes the
\* client call close(); and close() is called only in the handling of a
\* response (the completion of the ACK it caused included), on such a
\* failure, or by the operator's interrupt.
C24_SendFailureCloses ==
  [][ /\ (mode = "send" /\ ev'.kind = "senderror")
         => closeCalls' = closeCalls + 1
      /\ (mode = "send" /\ closeCalls' > closeCalls)
         => ev'.kind \in {"response", "ackdone", "senderror", "sigint"} ]_vars

\* C25: once the socket's error handler has closed the socket it stays
\* closed, and neither a later send nor a later close() throws: the client
\* does not crash.
C25_DeadTransportDoesNotThrow ==
  [][ SocketFailed
      => (~SocketRunning(sock') /\ thrown' = "none" /\ phase' # "crashed") ]_vars

\* The newest request on the wire is a MESSAGE that the last response handled
\* caused: nothing has answered it yet.
MessagePending ==
  /\ ev.kind = "response"
  /\ wire # <<>>
  /\ wire[Len(wire)].method = "MESSAGE"
  /\ wire[Len(wire)].fn = "_sendMessageWithAuth"

\* C26: while a MESSAGE is unanswered no further MESSAGE is transmitted; the
\* second delivery of the challenge that caused the pending MESSAGE sends
\* nothing.
C26_OneMessageOutstanding ==
  [][ (MessagePending /\ HandledResponse /\ ev' = ev /\ ev.status \in Challenge
       /\ ev.cm = "message")
      => NothingSent ]_vars

\* The first line of a datagram was parsed and the message handed on.
Parsed == call.fn = "message" /\ call.done /\ call.line # <<>>

\* Where the n-th space of the line is; past its end when it has fewer.
SpaceAt(line, n) ==
  LET at == {i \in DOMAIN line :
               line[i] = Space /\ Cardinality({j \in 1..i : line[j] = Space}) = n}
  IN  IF at = {} THEN Len(line) + 1 ELSE CHOOSE i \in at : TRUE

\* The digit pieces a stretch of text begins with.
LeadingDigits(str) ==
  LET n == CHOOSE k \in 0..Len(str) :
             /\ \A i \in 1..k : str[i] \in Digits
             /\ (k < Len(str) => str[k + 1] \notin Digits)
  IN  SubSeq(str, 1, n)

\* C29: a first line is a response exactly when it begins with `SIP/2.0 `,
\* and then the status code is the number its second word begins with and the
\* reason is everything after the second space; any other line goes to the
\* request callback with the upper-cased text before its first space as
\* method, whatever that method is.
C29_FirstLineClassified ==
  Parsed =>
    IF Len(call.line) >= 2 /\ call.line[1] = "SIP/2.0" /\ call.line[2] = " "
    THEN /\ call.delivered = <<"onResponse">>
         /\ call.parsed.statusCode
              = LeadingDigits(SubSeq(call.line, 3, SpaceAt(call.line, 2) - 1))
         /\ call.parsed.reason
              = SubSeq(call.line, SpaceAt(call.line, 2) + 1, Len(call.line))
    ELSE /\ call.delivered = <<"onRequest">>
         /\ Len(call.parsed.method) = SpaceAt(call.line, 1) - 1
         /\ \A i \in 1..(SpaceAt(call.line, 1) - 1) :
              call.parsed.method[i] = ToUpperCase(call.line[i])

\* A request with a method the client has no branch for, written in mixed
\* case, reaches the request callback as PING.
C29_Witness ==
  /\ Parsed
  /\ call.line = <<"Ping", " ", "sip/2.0", " ", "SIP/2.0">>
  /\ call.delivered = <<"onRequest">>
  /\ call.parsed.method = <<"PING">>

\* How many bytes of the stream have arrived.
Arrived == Len(Concatenated(call.msgs)) - Len(call.stream)

\* The messages all of whose bytes have arrived.
ArrivedWhole ==
  LET n == CHOOSE k \in 0..Len(call.msgs) :
             /\ Len(Concatenated(SubSeq(call.msgs, 1, k))) <= Arrived
             /\ (k < Len(call.msgs)
                   => Len(Concatenated(SubSeq(call.msgs, 1, k + 1))) > Arrived)
  IN  SubSeq(call.msgs, 1, n)

\* C27: however the stream of complete messages is cut into chunks, what the
\* framer has dispatched is at every moment exactly the messages that have
\* arrived whole, once each and in order: none before its last byte, all of
\* them as soon as the chunk that completes them is in.
C27_FramingIgnoresChunking ==
  call.fn = "framer" => call.dispatched = ArrivedWhole

\* A first chunk that ended inside the second message, whose body is
\* CRLF CRLF, and a second chunk that brought the rest: two dispatches.
C27_Witness ==
  /\ call.fn = "framer"
  /\ call.chunks = 2
  /\ call.stream = <<>>
  /\ Len(call.msgs) = 2
  /\ call.msgs[1] = <<"Ping", CRLF, "Content-Length:", "1", CRLF, CRLF, "b">>
  /\ call.msgs[2] = <<"SIP/2.0", CRLF, "CONTENT-LENGTH:", "2", CRLF, CRLF, CRLF, CRLF>>
  /\ call.dispatched = call.msgs

\* The datagram has been handled.
Handled == call.fn = "message" /\ call.done

\* C31: a datagram leads to one callback, onRequest or onResponse, when its
\* text has a line that is not empty, and to none when it has no such line;
\* the lines handed to the callback are the datagram's lines that are not
\* empty, in order.
C31_OneCallbackPerDatagram ==
  Handled =>
    /\ Len(call.delivered) = (IF \E i \in DOMAIN call.text : call.text[i] # CRLF
                              THEN 1 ELSE 0)
    /\ \A i \in DOMAIN call.delivered : call.delivered[i] \in {"onRequest", "onResponse"}
    /\ \A i \in DOMAIN call.messageLines : call.messageLines[i] # <<>>
    /\ \A i \in DOMAIN call.messageLines :
         \A j \in DOMAIN call.messageLines[i] : call.messageLines[i][j] # CRLF

\* A response between two empty lines: one onResponse with the one line.
C31_Witness ==
  /\ Handled
  /\ call.text = <<CRLF, "SIP/2.0", " ", "200", CRLF>>
  /\ call.delivered = <<"onResponse">>
  /\ call.messageLines = << <<"SIP/2.0", " ", "200">> >>

\* The requests of the INVITE family that follow an INVITE: the ACK and the
\* INVITE resent with credentials.
FollowsInvite(pkt) == pkt.method = "ACK" \/ pkt.fn = "_sendInviteWithAuth"

\* C32: every ACK and every INVITE resent with credentials comes after an
\* INVITE of _sendInvite and carries that INVITE's Call-ID and From-tag,
\* neither of them null.
C32_AckAndRetryFollowInvite ==
  \A i \in DOMAIN wire :
    FollowsInvite(wire[i])
      => /\ wire[i].callId # NullCallId
         /\ wire[i].fromTag # Null
         /\ \E j \in 1..(i - 1) :
              /\ wire[j].fn = "_sendInvite"
              /\ wire[j].callId = wire[i].callId
              /\ wire[j].fromTag = wire[i].fromTag

\* C33: what a response does is fixed by its status code, the method its CSeq
\* names and, for a 401/407, its challenge header; nothing asks whether the
\* client ever sent the request it answers, or which CSeq number it echoes.
\* A 2xx marks registered (REGISTER), closes in send mode (MESSAGE), sends an
\* ACK (INVITE); a usable challenge resends the named method; any other
\* status closes in send mode.
C33_ResponseNotCorrelated ==
  [][ HandledResponse
      => ( /\ (Is2xx(ev'.status) /\ ev'.cm = "register")
                => (isRegistered' /\ NothingSent /\ closeCalls' = closeCalls)
           /\ (Is2xx(ev'.status) /\ ev'.cm = "message")
                => ( /\ NothingSent
                     /\ closeCalls' = closeCalls + (IF mode = "send" THEN 1 ELSE 0) )
           /\ (Is2xx(ev'.status) /\ ev'.cm = "invite")
                => (OneSent /\ Newest.method = "ACK" /\ closeCalls' = closeCalls)
           /\ (ev'.status \in Challenge /\ UsableChallenge /\ KnownCseqMethod)
                => (OneSent /\ Newest.method = MethodOf(ev'.cm)
                    /\ closeCalls' = closeCalls)
           /\ (ev'.status \notin Challenge /\ ~Is2xx(ev'.status))
                => ( /\ NothingSent
                     /\ closeCalls' = closeCalls + (IF mode = "send" THEN 1 ELSE 0) ) ) ]_vars

\* A 2xx for an INVITE was acted on by a client that never sent an INVITE:
\* the ACK is on the wire.
C33_Witness ==
  /\ ev.kind = "response"
  /\ ev.status = 200
  /\ ev.cm = "invite"
  /\ ~Sent("INVITE")
  /\ wire # <<>>
  /\ wire[Len(wire)].method = "ACK"

\* C34: handling an inbound request leaves isRegistered, the registration
\* fields, the invite fields and the keep-alive timer as they were, calls no
\* close() and leaves the transport open.
C34_RequestChangesNoState ==
  [][ ev'.kind = "request"
      => ( /\ UNCHANGED <<isRegistered, regCseq, regBranch, regCallId, regFromTag>>
           /\ UNCHANGED <<inviteCallId, inviteBranch, inviteFromTag, inviteCseq>>
           /\ UNCHANGED <<keepAliveTimer, closeCalls>>
           /\ SocketRunning(sock') ) ]_vars

\* An inbound REGISTER was answered by a client in receive mode that has its
\* own REGISTER out and its keep-alive timer armed.
C34_Witness ==
  /\ ev.kind = "request"
  /\ ev.method = "REGISTER"
  /\ mode = "rcv"
  /\ keepAliveTimer
  /\ ~isRegistered
  /\ Len(wire) >= 2
  /\ wire[Len(wire)].fn = "_handleRequest"

\* The step handles an inbound message: a response or a request.
InboundEvent == ev'.kind \in {"response", "request"}

\* C35: in receive mode the handling of a response or of a request calls no
\* close(), leaves the transport open and leaves the keep-alive timer armed.
C35_ReceiveModeStaysOpen ==
  [][ (mode = "rcv" /\ InboundEvent)
      => ( /\ closeCalls' = closeCalls
           /\ SocketRunning(sock')
           /\ keepAliveTimer' = keepAliveTimer
           /\ (closeCalls = 0 => keepAliveTimer')
           /\ phase' = "running" ) ]_vars

\* A challenge of a MESSAGE and then a request were handled in receive mode:
\* the socket is open and the timer armed.
C35_Witness ==
  /\ mode = "rcv"
  /\ ev.kind = "request"
  /\ wire # <<>>
  /\ wire[Len(wire)].fn = "_handleRequest"
  /\ \E i \in DOMAIN wire : wire[i].fn = "_sendMessageWithAuth"
  /\ SocketRunning(sock)
  /\ keepAliveTimer
  /\ closeCalls = 0

\* The step handles a 401/407 whose CSeq names REGISTER.
RegisterChallengeHandled ==
  HandledResponse /\ ev'.status \in Challenge /\ ev'.cm = "register"

\* C36: a REGISTER goes out with a Digest credential header exactly when it
\* is sent in the handling of a 401/407 for a REGISTER; the REGISTER of the
\* bind callback and those of the keep-alive timer carry none, whatever was
\* accepted before.
C36_CredentialsOnlyOnRetry ==
  [][ (OneSent /\ Newest.method = "REGISTER")
      => ( /\ (Newest.auth # "none") <=> RegisterChallengeHandled
           /\ ev'.kind \in {"bound", "keepalive"}
                => (Newest.auth = "none" /\ Newest.digest = NoAuthHeader) ) ]_vars

\* A keep-alive REGISTER without credentials, sent after a REGISTER with
\* credentials and with the client registered.
C36_Witness ==
  /\ ev.kind = "keepalive"
  /\ isRegistered
  /\ Len(wire) >= 3
  /\ wire[Len(wire)].fn = "_sendRegister"
  /\ wire[Len(wire)].auth = "none"
  /\ \E i \in 1..(Len(wire) - 1) :
       wire[i].fn = "_sendRegisterWithAuth" /\ wire[i].auth # "none"

\* The text of a built message after its first empty line, the separator of
\* headers and body.
AfterSeparator(lines) ==
  lines[1 + CHOOSE i \in DOMAIN lines :
              /\ lines[i] = EmptyLine
              /\ \A j \in 1..(i - 1) : lines[j] # EmptyLine]

\* C37: the Content-Length of every built message is the length of the text
\* after the separator line (counted as the builder counts, in the units of
\* String.length), for the four methods, an ACK given a body included.
C37_ContentLengthMatchesBody ==
  (Built /\ ~call.threw)
    => ContentLengthLine(call.lines)
         = <<"Content-Length:", ToString(StringLength(AfterSeparator(call.lines)))>>

====
